---- MODULE Spec2Model ----
(***************************************************************************)
(* Model of src/starter.py: a Streamlit page that loads one remote table,  *)
(* plots the selected series and, on request, forecasts them.              *)
(*                                                                         *)
(* Every user interaction re-runs the script top to bottom; what survives  *)
(* between runs are the six Streamlit caches.  A script run is one atomic  *)
(* action (Streamlit serialises the runs of a session).  Time is counted in*)
(* seconds as the age of each cache entry; a run takes no time at that     *)
(* resolution.                                                             *)
(***************************************************************************)
EXTENDS Integers, Sequences, FiniteSets, TLC

(***************************************************************************)
(* Bounds of the model.                                                    *)
(***************************************************************************)
\* Longest remote table enumerated exhaustively (SpecTables).
MaxRows == 2
\* Largest horizon the slider offers in the model (the slider goes to 12).
MaxHorizon == 2
\* Number of script runs explored.
MaxRuns == 2

(***************************************************************************)
(* Program constants.                                                      *)
(***************************************************************************)
\* ttl=600 of run_query and of create_dataframe.
TTL == 600
\* The identifier whose dates give the x axis of the plot.
RefId == 2674
\* st.slider("Horizon", 1, 12, step=1)
SliderMin == 1
SliderMax == 12

AgeCap == TTL + TTL \div 2
\* Time passes in steps that put an entry at 599 s and at 600 s of age.
TickSteps == {TTL \div 2 - 1, TTL \div 2}
Horizons == SliderMin .. (IF MaxHorizon < SliderMax THEN MaxHorizon ELSE SliderMax)
PartIds == {2673, RefId}
ExcludedDate == "4/1/2002"
Dates == {ExcludedDate, "5/1/2002"}

(***************************************************************************)
(* Values of the volume column.  A JSON number arrives as an int or a      *)
(* float, a text column as a string.  Floats are held in tenths.           *)
(***************************************************************************)
IntV(n) == [typ |-> "int", num |-> n, str |-> ""]
FloatV(tenths) == [typ |-> "float", num |-> tenths, str |-> ""]
StrV(s) == [typ |-> "str", num |-> 0, str |-> s]

\* Python's int(str) on the string literals of the model.
IntOf == [s \in {"2"} |-> 2]
\* Python's float(str), in tenths, on the literals that are no integer.
FloatOf == [s \in {"1.5"} |-> 15]

RawVolumes == {IntV(1), FloatV(15), StrV("2"), StrV("1.5"), StrV("x")}

\* Can the value be read as an integer without loss?
IsIntParseable(v) ==
  \/ v.typ = "int"
  \/ v.typ = "str" /\ v.str \in DOMAIN IntOf

\* One element of Series.astype(int): int(v), which truncates a float and
\* raises ValueError on a string that is no integer literal.
AsTypeIntFails(v) == v.typ = "str" /\ v.str \notin DOMAIN IntOf

AsTypeInt(v) ==
  CASE v.typ = "int" -> v
    [] v.typ = "float" -> IntV(v.num \div 10)
    [] OTHER -> IntV(IntOf[v.str])

\* One element of pd.to_numeric: raises on a string that is no number.
ToNumericFails(v) ==
  v.typ = "str" /\ v.str \notin (DOMAIN IntOf \cup DOMAIN FloatOf)

ToNumeric(v) ==
  CASE v.typ \in {"int", "float"} -> v
    [] v.str \in DOMAIN IntOf -> IntV(IntOf[v.str])
    [] OTHER -> FloatV(FloatOf[v.str])

(***************************************************************************)
(* Tables: a DataFrame is its set of columns and its rows in order.        *)
(***************************************************************************)
RawCols == {"id", "parts_id", "date", "volume"}
EmptyFrame == [cols |-> {}, rows |-> <<>>]

RawRecord(i, p, d, v) == [id |-> i, parts_id |-> p, date |-> d, volume |-> v]

\* pd.json_normalize(rows.data): an empty list gives a frame without columns.
JsonNormalize(data) ==
  IF data = <<>> THEN EmptyFrame
  ELSE [cols |-> DOMAIN data[1], rows |-> data]

\* The elements of a sequence.
Range(s) == {s[i] : i \in DOMAIN s}

(***************************************************************************)
(* Cache entries.  A ttl entry carries its age in seconds; the dataframe   *)
(* entry also carries the age of the query response it was built from.     *)
(***************************************************************************)
NoRows == [present |-> FALSE, age |-> 0, data |-> <<>>]
NoFrame == [present |-> FALSE, age |-> 0, fetchAge |-> 0, table |-> EmptyFrame]

\* Mutant of RunQueryFresh: the ttl is left out of the decorator.
RunQueryKept(entry) == entry.present

\* @st.cache_resource(ttl=600): the entry answers while it is younger than ttl.
RunQueryFresh(entry) == entry.present /\ entry.age < TTL

\* Mutant of DataframeFresh: the ttl is left out of the decorator.
DataframeKept(entry) == entry.present

\* @st.cache_data(ttl=600)
DataframeFresh(entry) == entry.present /\ entry.age < TTL

Older(age, d) == IF age + d > AgeCap THEN AgeCap ELSE age + d

(***************************************************************************)
(* run_query                                                               *)
(***************************************************************************)
RunQuery(entry, remoteData) ==
  IF RunQueryFresh(entry)
  THEN [rows |-> entry.data, entry |-> entry, queried |-> FALSE]
  ELSE [rows |-> remoteData,
        entry |-> [present |-> TRUE, age |-> 0, data |-> remoteData],
        queried |-> TRUE]

(***************************************************************************)
(* create_dataframe                                                        *)
(***************************************************************************)
\* Mutant of CreateDataframeBody: the excluded date is dropped for part 2673
\* alone.
CreateDataframeBodyOnePart(data) ==
  LET df == JsonNormalize(data)
      NotExcluded(r) == ~(r.date = ExcludedDate /\ r.parts_id = 2673)
  IN  IF "date" \notin df.cols
      THEN [err |-> "KeyError", val |-> EmptyFrame]
      ELSE [err |-> "none",
            val |-> [cols |-> df.cols, rows |-> SelectSeq(df.rows, NotExcluded)]]

CreateDataframeBody(data) ==
  LET df == JsonNormalize(data)
      NotExcluded(r) == r.date # ExcludedDate
  IN  IF "date" \notin df.cols
      THEN [err |-> "KeyError", val |-> EmptyFrame]
      ELSE [err |-> "none",
            val |-> [cols |-> df.cols, rows |-> SelectSeq(df.rows, NotExcluded)]]

CreateDataframe(dfEntry, rqEntry, remoteData) ==
  IF DataframeFresh(dfEntry)
  THEN [err |-> "none", df |-> dfEntry.table, fetchAge |-> dfEntry.fetchAge,
        dfEntry |-> dfEntry, rqEntry |-> rqEntry, executed |-> FALSE,
        rqCalled |-> FALSE, queried |-> FALSE, rows |-> <<>>]
  ELSE LET Built(q, b) ==
             [err |-> b.err, df |-> b.val, fetchAge |-> q.entry.age,
              dfEntry |-> IF b.err = "none"
                          THEN [present |-> TRUE, age |-> 0,
                                fetchAge |-> q.entry.age, table |-> b.val]
                          ELSE dfEntry,
              rqEntry |-> q.entry, executed |-> TRUE,
              rqCalled |-> TRUE, queried |-> q.queried, rows |-> q.rows]
           Queried(q) == Built(q, CreateDataframeBody(q.rows))
       IN  Queried(RunQuery(rqEntry, remoteData))

\* df['parts_id'].unique(): the options of the multiselect.
UniqueParts(df) == {df.rows[i].parts_id : i \in DOMAIN df.rows}

\* What st.multiselect can return: options, each at most once, in the order
\* chosen.
IsSelection(ids, options) ==
  /\ \A i \in DOMAIN ids : ids[i] \in options
  /\ \A i, j \in DOMAIN ids : i # j => ids[i] # ids[j]

\* Every selection over the identifiers of the model.
AllSelections ==
  {s \in UNION {[1..n -> PartIds] : n \in 0..Cardinality(PartIds)} :
     IsSelection(s, PartIds)}

(***************************************************************************)
(* plot_volume                                                             *)
(***************************************************************************)
SeriesOf(df, id) ==
  LET Mine(r) == r.parts_id = id IN SelectSeq(df.rows, Mine)

PlotVolume(cache, df, ids) ==
  IF ids \in cache
  THEN [err |-> "none", df |-> df, cache |-> cache, executed |-> FALSE]
  ELSE IF \E i \in DOMAIN df.rows : AsTypeIntFails(df.rows[i].volume)
  THEN [err |-> "ValueError", df |-> df, cache |-> cache, executed |-> TRUE]
  ELSE LET Plot(cast) ==
             IF \E k \in DOMAIN ids :
                  Len(SeriesOf(cast, ids[k])) # Len(SeriesOf(cast, RefId))
             THEN [err |-> "ValueError", df |-> cast, cache |-> cache,
                   executed |-> TRUE]
             ELSE [err |-> "none", df |-> cast, cache |-> cache \cup {ids},
                   executed |-> TRUE]
       IN  Plot([df EXCEPT !.rows =
                   [i \in DOMAIN df.rows |->
                      [df.rows[i] EXCEPT !.volume = AsTypeInt(@)]]])

(***************************************************************************)
(* format_dataset                                                          *)
(***************************************************************************)
FormattedCols == {"unique_id", "ds", "y"}

\* Mutant of FormatDatasetBody: the rows are not filtered on ids.
FormatDatasetBodyUnfiltered(df, ids) ==
  IF {"parts_id", "id", "volume"} \ df.cols # {}
  THEN [err |-> "KeyError", val |-> EmptyFrame]
  ELSE IF \E i \in DOMAIN df.rows : ToNumericFails(df.rows[i].volume)
  THEN [err |-> "ValueError", val |-> EmptyFrame]
  ELSE [err |-> "none",
        val |-> [cols |-> FormattedCols,
                 rows |-> [i \in DOMAIN df.rows |->
                             [unique_id |-> df.rows[i].parts_id,
                              ds |-> df.rows[i].date,
                              y |-> ToNumeric(df.rows[i].volume)]]]]

\* The body: filter on parts_id, drop id, rename, coerce y.  Every step builds
\* a new frame, so the frame read is not touched.
FormatDatasetBody(df, ids) ==
  IF {"parts_id", "id", "volume"} \ df.cols # {}
  THEN [err |-> "KeyError", val |-> EmptyFrame]
  ELSE LET Chosen(r) == r.parts_id \in Range(ids)
           Renamed(sel) ==
             IF \E i \in DOMAIN sel : ToNumericFails(sel[i].volume)
             THEN [err |-> "ValueError", val |-> EmptyFrame]
             ELSE [err |-> "none",
                   val |-> [cols |-> FormattedCols,
                            rows |-> [i \in DOMAIN sel |->
                                        [unique_id |-> sel[i].parts_id,
                                         ds |-> sel[i].date,
                                         y |-> ToNumeric(sel[i].volume)]]]]
       IN  Renamed(SelectSeq(df.rows, Chosen))

\* @st.cache_data: keyed on ids alone, without ttl.
FormatDatasetCached(cache, ids) == ids \in DOMAIN cache

Store(cache, key, val) ==
  [k \in DOMAIN cache \cup {key} |-> IF k = key THEN val ELSE cache[k]]

FormatDataset(cache, df, ids) ==
  IF FormatDatasetCached(cache, ids)
  THEN [err |-> "none", val |-> cache[ids], cache |-> cache, executed |-> FALSE]
  ELSE LET Returned(b) ==
             [err |-> b.err, val |-> b.val, executed |-> TRUE,
              cache |-> IF b.err = "none" THEN Store(cache, ids, b.val)
                        ELSE cache]
       IN  Returned(FormatDatasetBody(df, ids))

(***************************************************************************)
(* create_sf_object and the forecast                                       *)
(***************************************************************************)
\* @st.cache_resource: keyed on the content of model_df.
CreateSfObject(cache, model_df) ==
  [sf |-> [df |-> model_df, models |-> <<"CrostonOptimized">>, freq |-> "MS"],
   cache |-> cache \cup {model_df}]

\* The members of a finite set of integers, ascending.
RECURSIVE Ascending(_)
Ascending(S) ==
  IF S = {} THEN <<>>
  ELSE LET m == CHOOSE x \in S : \A y \in S : x <= y
       IN  <<m>> \o Ascending(S \ {m})

RECURSIVE Concat(_)
Concat(ss) == IF ss = <<>> THEN <<>> ELSE Head(ss) \o Concat(Tail(ss))

\* StatsForecast.forecast(h): h rows for each series of the frame, the
\* series in ascending order of unique_id.  The point forecast of a series is
\* a function of its observations, kept here as those observations; the
\* forecast dates are the months that follow the last observed one.
Forecast(sf, h) ==
  LET rows == sf.df.rows
      Mine(u) == LET Same(r) == r.unique_id = u IN SelectSeq(rows, Same)
      Steps(u, obs) ==
        [k \in 1..h |->
           [unique_id |-> u,
            ds |-> [after |-> obs[Len(obs)].ds, months |-> k],
            CrostonOptimized |-> [i \in DOMAIN obs |-> obs[i].y]]]
      All(series) == Concat([n \in DOMAIN series |->
                               Steps(series[n], Mine(series[n]))])
  IN  All(Ascending({rows[i].unique_id : i \in DOMAIN rows}))

\* forecast_df.to_csv(header=True): the header line, then a line per row.
ToCsv(frame) ==
  [header |-> << <<"unique_id", "ds", "CrostonOptimized">> >>,
   data |-> [i \in DOMAIN frame |->
               <<frame[i].unique_id, frame[i].ds, frame[i].CrostonOptimized>>]]

NoCsv == [header |-> <<>>, data |-> <<>>]

(***************************************************************************)
(* make_predictions                                                        *)
(***************************************************************************)
\* @st.cache_data: keyed on (ids, horizon), without ttl.
MakePredictionsCached(cache, ids, horizon) == <<ids, horizon>> \in DOMAIN cache

MakePredictions(mpCache, fdCache, sfCache, df, ids, horizon) ==
  IF MakePredictionsCached(mpCache, ids, horizon)
  THEN [err |-> "none", csv |-> mpCache[<<ids, horizon>>], executed |-> FALSE,
        mpCache |-> mpCache, fdCache |-> fdCache, sfCache |-> sfCache,
        fdCalled |-> FALSE, fdExecuted |-> FALSE, sfCalled |-> FALSE,
        modelDf |-> EmptyFrame]
  ELSE LET Predicted(f, s, csv) ==
             [err |-> "none", csv |-> csv, executed |-> TRUE,
              mpCache |-> Store(mpCache, <<ids, horizon>>, csv),
              fdCache |-> f.cache, sfCache |-> s.cache,
              fdCalled |-> TRUE, fdExecuted |-> f.executed,
              sfCalled |-> TRUE, modelDf |-> f.val]
           Trained(f, s) == Predicted(f, s, ToCsv(Forecast(s.sf, horizon)))
           Formatted(f) ==
             IF f.err # "none"
             THEN [err |-> f.err, csv |-> NoCsv, executed |-> TRUE,
                   mpCache |-> mpCache, fdCache |-> f.cache,
                   sfCache |-> sfCache,
                   fdCalled |-> TRUE, fdExecuted |-> f.executed,
                   sfCalled |-> FALSE, modelDf |-> EmptyFrame]
             ELSE Trained(f, CreateSfObject(sfCache, f.val))
       IN  Formatted(FormatDataset(fdCache, df, ids))

(***************************************************************************)
(* The script body below st.title                                          *)
(***************************************************************************)
\* "_".join(str(id_i) for id_i in product_ids)
RECURSIVE JoinIds(_)
JoinIds(ids) ==
  IF ids = <<>> THEN ""
  ELSE IF Len(ids) = 1 THEN ToString(ids[1])
  ELSE ToString(ids[1]) \o "_" \o JoinIds(Tail(ids))

\* Mutant of FileName: the identifiers are joined in ascending order.
FileNameSorted(ids, horizon) ==
  "forecast_" \o JoinIds(Ascending(Range(ids))) \o "_" \o ToString(horizon)
    \o ".csv"

\* f"forecast_{ids_for_file_name}_{horizon}.csv"
FileName(ids, horizon) ==
  "forecast_" \o JoinIds(ids) \o "_" \o ToString(horizon) \o ".csv"

\* Mutant of NothingSelected: the test for an empty selection never fires.
NothingSelectedNever(ids) == FALSE

\* if len(product_ids) == 0: st.warning(...)
NothingSelected(ids) == Len(ids) = 0

\* The "Forecast" expander, reached when plot_volume has returned.
ForecastSection(mpCache, fdCache, sfCache, df, ids, btn, horizon) ==
  LET idle == [err |-> "none", warning |-> FALSE, btn |-> FALSE, horizon |-> 0,
               mpCalled |-> FALSE, mpExecuted |-> FALSE, mpIds |-> <<>>,
               fdCalled |-> FALSE, fdExecuted |-> FALSE, sfCalled |-> FALSE,
               modelDf |-> EmptyFrame, csv |-> NoCsv,
               download |-> FALSE, fileName |-> "",
               mpCache |-> mpCache, fdCache |-> fdCache, sfCache |-> sfCache]
  IN  IF NothingSelected(ids) THEN [idle EXCEPT !.warning = TRUE]
      ELSE IF ~btn THEN idle
      ELSE LET Pressed(p) ==
                 [idle EXCEPT !.err = p.err, !.btn = TRUE, !.horizon = horizon,
                              !.mpCalled = TRUE, !.mpExecuted = p.executed,
                              !.mpIds = ids,
                              !.fdCalled = p.fdCalled,
                              !.fdExecuted = p.fdExecuted,
                              !.sfCalled = p.sfCalled, !.modelDf = p.modelDf,
                              !.csv = p.csv,
                              !.download = (p.err = "none"),
                              !.fileName = IF p.err = "none"
                                           THEN FileName(ids, horizon) ELSE "",
                              !.mpCache = p.mpCache, !.fdCache = p.fdCache,
                              !.sfCache = p.sfCache]
           IN  Pressed(MakePredictions(mpCache, fdCache, sfCache, df, ids,
                                       horizon))

(***************************************************************************)
(* The remote table car_parts_monthly_sales.                               *)
(***************************************************************************)
\* A table from its (parts_id, date, volume) triples; id is the row number.
TableOf(triples) ==
  [i \in DOMAIN triples |->
     RawRecord(i, triples[i][1], triples[i][2], triples[i][3])]

\* Every table of at most MaxRows rows.
AllTables ==
  {TableOf(t) : t \in UNION {[1..n -> PartIds \X Dates \X RawVolumes] :
                                n \in 0..MaxRows}}

\* The contents the remote table takes in the long-running specification:
\* empty; a clean table that also holds a record of the excluded date; a clean
\* table with other volumes; a table whose volumes are no integers.
RemoteTables ==
  { <<>>,
    TableOf(<< <<2673, ExcludedDate, IntV(1)>>,
               <<2673, "5/1/2002", IntV(1)>>, <<RefId, "5/1/2002", StrV("2")>> >>),
    TableOf(<< <<2673, "5/1/2002", StrV("2")>>, <<RefId, "5/1/2002", IntV(1)>> >>),
    TableOf(<< <<2673, "5/1/2002", StrV("1.5")>>, <<RefId, "5/1/2002", StrV("x")>> >>) }

(***************************************************************************)
(* State                                                                   *)
(***************************************************************************)
VARIABLES
  remote,     \* rows of the remote table
  rqCache,    \* run_query's entry
  dfCache,    \* create_dataframe's entry
  plotCache,  \* plot_volume: the ids answered from the cache
  fdCache,    \* format_dataset: ids -> model_df
  sfCache,    \* create_sf_object: the frames a session is held for
  mpCache,    \* make_predictions: <<ids, horizon>> -> csv
  out,        \* what the last script run did and showed
  nRuns       \* script runs so far

vars == <<remote, rqCache, dfCache, plotCache, fdCache, sfCache, mpCache, out, nRuns>>

NoRun ==
  [err |-> "none", stage |-> "none",
   cdExecuted |-> FALSE, rqCalled |-> FALSE, queried |-> FALSE, rows |-> <<>>,
   tableReturned |-> FALSE, table |-> EmptyFrame, fetchAge |-> 0,
   ids |-> <<>>, plotExecuted |-> FALSE, frame |-> EmptyFrame,
   reachedForecast |-> FALSE,
   warning |-> FALSE, btn |-> FALSE, horizon |-> 0,
   mpCalled |-> FALSE, mpExecuted |-> FALSE, mpIds |-> <<>>,
   fdCalled |-> FALSE, fdExecuted |-> FALSE, sfCalled |-> FALSE,
   modelDf |-> EmptyFrame, csv |-> NoCsv, download |-> FALSE, fileName |-> ""]

EmptyMap == [k \in {} |-> NoCsv]

InitCaches ==
  /\ rqCache = NoRows
  /\ dfCache = NoFrame
  /\ plotCache = {}
  /\ fdCache = EmptyMap
  /\ sfCache = {}
  /\ mpCache = EmptyMap
  /\ out = NoRun
  /\ nRuns = 0

Init == remote \in RemoteTables /\ InitCaches

InitTables == remote \in AllTables /\ InitCaches

(***************************************************************************)
(* A script run that stops in create_dataframe (line 90).                  *)
(***************************************************************************)
LoadFails ==
  /\ nRuns < MaxRuns
  /\ \E cd \in {CreateDataframe(dfCache, rqCache, remote)} :
       /\ cd.err # "none"
       /\ rqCache' = cd.rqEntry
       /\ dfCache' = cd.dfEntry
       /\ out' = [NoRun EXCEPT !.err = cd.err, !.stage = "create_dataframe",
                               !.cdExecuted = cd.executed,
                               !.rqCalled = cd.rqCalled,
                               !.queried = cd.queried, !.rows = cd.rows]
  /\ nRuns' = nRuns + 1
  /\ UNCHANGED <<remote, plotCache, fdCache, sfCache, mpCache>>

(***************************************************************************)
(* A script run that gets past create_dataframe: the user has selected ids,*)
(* set the slider to horizon and, with btn, pressed "Forecast".            *)
(***************************************************************************)
Loaded(cd, pl, ids) ==
  [NoRun EXCEPT !.cdExecuted = cd.executed, !.rqCalled = cd.rqCalled,
                !.queried = cd.queried, !.rows = cd.rows,
                !.tableReturned = TRUE, !.table = cd.df,
                !.fetchAge = cd.fetchAge, !.ids = ids,
                !.plotExecuted = pl.executed, !.frame = pl.df]

Shown(loaded, fs) ==
  [loaded EXCEPT !.err = fs.err,
                 !.stage = IF fs.err = "none" THEN "none" ELSE "make_predictions",
                 !.reachedForecast = TRUE,
                 !.warning = fs.warning, !.btn = fs.btn,
                 !.horizon = fs.horizon,
                 !.mpCalled = fs.mpCalled, !.mpExecuted = fs.mpExecuted,
                 !.mpIds = fs.mpIds,
                 !.fdCalled = fs.fdCalled, !.fdExecuted = fs.fdExecuted,
                 !.sfCalled = fs.sfCalled, !.modelDf = fs.modelDf,
                 !.csv = fs.csv, !.download = fs.download,
                 !.fileName = fs.fileName]

RunPage(ids, btn, horizon) ==
  /\ nRuns < MaxRuns
  /\ \E cd \in {CreateDataframe(dfCache, rqCache, remote)} :
       /\ cd.err = "none"
       /\ IsSelection(ids, UniqueParts(cd.df))
       /\ rqCache' = cd.rqEntry
       /\ dfCache' = cd.dfEntry
       /\ \E pl \in {PlotVolume(plotCache, cd.df, ids)} :
            /\ plotCache' = pl.cache
            /\ IF pl.err # "none"
               THEN /\ out' = [Loaded(cd, pl, ids) EXCEPT
                                 !.err = pl.err, !.stage = "plot_volume"]
                    /\ UNCHANGED <<fdCache, sfCache, mpCache>>
               ELSE \E fs \in {ForecastSection(mpCache, fdCache, sfCache,
                                                pl.df, ids, btn, horizon)} :
                      /\ out' = Shown(Loaded(cd, pl, ids), fs)
                      /\ fdCache' = fs.fdCache
                      /\ sfCache' = fs.sfCache
                      /\ mpCache' = fs.mpCache
  /\ nRuns' = nRuns + 1
  /\ UNCHANGED remote

(***************************************************************************)
(* The environment: time passes, the remote table is edited, the server    *)
(* process is restarted.  Nothing is explored past the last script run.    *)
(***************************************************************************)
\* An entry past its ttl is gone for every later access.
Tick(d) ==
  /\ nRuns < MaxRuns
  /\ rqCache' = LET aged == [rqCache EXCEPT !.age = Older(@, d)]
                IN  IF RunQueryFresh(aged) THEN aged ELSE NoRows
  /\ dfCache' = LET aged == [dfCache EXCEPT !.age = Older(@, d),
                                            !.fetchAge = Older(@, d)]
                IN  IF DataframeFresh(aged) THEN aged ELSE NoFrame
  /\ UNCHANGED <<remote, plotCache, fdCache, sfCache, mpCache, out, nRuns>>

RemoteChange(t) ==
  /\ nRuns < MaxRuns
  /\ t # remote
  /\ remote' = t
  /\ UNCHANGED <<rqCache, dfCache, plotCache, fdCache, sfCache, mpCache, out, nRuns>>

Restart ==
  /\ nRuns < MaxRuns
  /\ rqCache' = NoRows
  /\ dfCache' = NoFrame
  /\ plotCache' = {}
  /\ fdCache' = EmptyMap
  /\ sfCache' = {}
  /\ mpCache' = EmptyMap
  /\ UNCHANGED <<remote, out, nRuns>>

Next ==
  \/ LoadFails
  \/ \E ids \in AllSelections, btn \in BOOLEAN, h \in Horizons :
       RunPage(ids, btn, h)
  \/ \E d \in TickSteps : Tick(d)
  \/ \E t \in RemoteTables : RemoteChange(t)
  \/ Restart

Spec == Init /\ [][Next]_vars

\* One script run on every table of at most MaxRows rows.
FirstLoadFails == nRuns = 0 /\ LoadFails

FirstRunPage(ids, btn, horizon) == nRuns = 0 /\ RunPage(ids, btn, horizon)

NextTables ==
  \/ FirstLoadFails
  \/ \E ids \in AllSelections, btn \in BOOLEAN, h \in Horizons :
       FirstRunPage(ids, btn, h)

SpecTables == InitTables /\ [][NextTables]_vars

(***************************************************************************)
(* Properties                                                              *)
(***************************************************************************)

CsvHasOneRowPerSeriesAndStep ==
  out.download =>
    /\ out.mpIds # <<>> /\ out.horizon \in SliderMin..SliderMax
    /\ Len(out.csv.header) = 1
    /\ Len(out.csv.data) = Len(out.mpIds) * out.horizon
    /\ \A i \in DOMAIN out.csv.data : out.csv.data[i][1] \in Range(out.mpIds)
    /\ \A u \in Range(out.mpIds), k \in 1..out.horizon :
         Cardinality({i \in DOMAIN out.csv.data :
                        /\ out.csv.data[i][1] = u
                        /\ out.csv.data[i][2].months = k}) = 1

\* A forecast of two series over two steps was offered.
CsvSeen ==
  out.download /\ Len(out.mpIds) = 2 /\ out.horizon = 2 /\ Len(out.csv.data) = 4

\* C4: a call of run_query made less than 600 seconds after the execution that
\* queried the remote table returns that execution's result and issues no
\* query; a call made when no such result is held (none yet, the window
\* expired, the process restarted) queries the remote table.
RunQueryAnswersFromCacheWithinTtl ==
  [][(nRuns' = nRuns + 1 /\ out'.rqCalled) =>
       IF rqCache.present /\ rqCache.age < 600
       THEN ~out'.queried /\ out'.rows = rqCache.data /\ rqCache' = rqCache
       ELSE out'.queried /\ out'.rows = remote /\ rqCache'.age = 0]_vars

\* run_query answered from its cache 599 seconds after the query, although
\* the remote table had changed.
RunQueryCacheHitSeen ==
  out.rqCalled /\ ~out.queried /\ out.rows # remote /\ rqCache.age = 599

\* C5: a record of the table whose volume is no integer makes the run that
\* uses the table fail, and no non-integer value reaches the forecast, also
\* in runs in which plot_volume or format_dataset answers from its cache.
NonIntegerVolumeIsReported ==
  /\ (out.tableReturned /\
        \E i \in DOMAIN out.table.rows :
          ~IsIntParseable(out.table.rows[i].volume)) => out.err # "none"
  /\ out.sfCalled =>
        \A i \in DOMAIN out.modelDf.rows : out.modelDf.rows[i].y.typ = "int"

\* C6: format_dataset(ids), applied to the frame format_dataset(ids) has
\* returned, returns that frame again.
FormatIsIdempotent ==
  (out.fdCalled /\ out.err = "none") =>
    LET again == FormatDataset(fdCache, out.modelDf, out.ids)
    IN  again.err = "none" /\ again.val = out.modelDf

\* C7: the file name offered with the download is "forecast_", the selected
\* identifiers in selection order joined by "_", "_", the horizon and ".csv",
\* for the identifiers and the horizon passed to make_predictions in that run.
RECURSIVE Prefixed(_, _)
Prefixed(ids, n) ==
  IF n = 0 THEN "forecast"
  ELSE Prefixed(ids, n - 1) \o "_" \o ToString(ids[n])

FileNameNamesIdsAndHorizon ==
  /\ FileName(<<12, 34>>, 5) = "forecast_12_34_5.csv"
  /\ out.download =>
        /\ out.mpIds = out.ids
        /\ out.fileName =
             Prefixed(out.mpIds, Len(out.mpIds)) \o "_"
               \o ToString(out.horizon) \o ".csv"

\* A download was offered for two identifiers selected in descending order.
FileNameSeen ==
  /\ out.download /\ out.mpIds = <<RefId, 2673>> /\ out.horizon = 2
  /\ out.fileName = "forecast_2674_2673_2.csv"

\* C8: format_dataset(ids) returns one row {unique_id = parts_id, ds = date,
\* y = the numeric value of volume}, without the id column, for each record
\* of the run's table whose parts_id is in ids, in order, and no other row.
FormatReturnsTheSelectedRecords ==
  (out.fdCalled /\ out.err = "none") =>
    LET Chosen(r) == r.parts_id \in Range(out.ids)
        sel == SelectSeq(out.frame.rows, Chosen)
    IN  /\ out.modelDf.cols = {"unique_id", "ds", "y"}
        /\ Len(out.modelDf.rows) = Len(sel)
        /\ \A i \in DOMAIN sel :
             out.modelDf.rows[i] = [unique_id |-> sel[i].parts_id,
                                    ds |-> sel[i].date,
                                    y |-> ToNumeric(sel[i].volume)]

\* C9: the CSV make_predictions returns in a run is the forecast computed from
\* the rows of the table create_dataframe returned in that run.
ForecastComesFromThisRunsTable ==
  out.download =>
    LET fresh == FormatDatasetBody(out.frame, out.mpIds)
    IN  /\ fresh.err = "none"
        /\ out.csv = ToCsv(Forecast(CreateSfObject({}, fresh.val).sf,
                                     out.horizon))

====
